---- MODULE Spec2Model ----
(***************************************************************************)
(* A model of the dual-layout animation of the tree scene: the particle    *)
(* field (Foliage), the three instanced ornament pools and the star        *)
(* (Ornaments), the target state owned by App, and the cubic ease used by  *)
(* the host loop and by the vertex shader.                                 *)
(*                                                                         *)
(* Arithmetic is exact.  A real number the program handles is kept as an   *)
(* integer numerator over a fixed denominator:                             *)
(*   progress, delta, elapsed time      over ONE  = 2^FracBits             *)
(*   an eased value                     over EONE = 2 * ONE^3              *)
(*   a length (endpoint, base scale)    over LEN  (hundredths)             *)
(*   a blended position                 over EONE * LEN                    *)
(*   a value of Math.random()           over RND                           *)
(* A frame whose result cannot be written over ONE is outside the model    *)
(* (Representable), so no rounding is ever modelled.                       *)
(***************************************************************************)
EXTENDS Integers, Sequences, FiniteSets, TLC

\* ---------------------------------------------------------------- bounds
\* Fractional bits of progress, delta and time.
FracBits == 3
\* Largest delta of one frame, in quarter seconds.
MaxDelta == 4
\* The clock is followed up to MaxTime quarter seconds and is pinned there.
MaxTime == 6
\* progress is followed in [-MaxOver, 1 + MaxOver].
MaxOver == 1
\* Instances allocated per instanced mesh (450 in the program).
ORNAMENT_COUNT == 5
\* Particles of the particle field (15000 in the program).
PARTICLE_COUNT == 2
\* Fractional bits of the inputs the ease functions are probed at.
EaseBits == 4

\* ----------------------------------------------------------------- units
ONE == 2 ^ FracBits
EONE == 2 * ONE * ONE * ONE
LEN == 10 * 10
RND == 64 * 75
QUARTER == ONE \div 4

\* ------------------------------------------------------ program constants
HEIGHT == 9
\* RADIUS_BASE 3.5 and SCATTER_RADIUS 15, as lengths over LEN.
RADIUS_BASE == (35 * LEN) \div 10
SCATTER_RADIUS == 15 * LEN
TRANSITION_SPEED == 2

SCATTERED == "SCATTERED"
TREE_SHAPE == "TREE_SHAPE"
TreeState == {SCATTERED, TREE_SHAPE}

Pools == <<"sphere", "box", "bell">>
PoolNames == {Pools[k] : k \in 1..Len(Pools)}

\* ------------------------------------------------------------ arithmetic
Abs(x) == IF x < 0 THEN -x ELSE x
Min(a, b) == IF a < b THEN a ELSE b
Max(a, b) == IF a < b THEN b ELSE a

\* THREE.MathUtils.lerp(x, y, t) = (1 - t) * x + t * y, with t over den.
Lerp(x, y, t, den) == (den - t) * x + t * y

\* Math.cos / Math.sin of a fraction a / RND of a full turn, at the quarter
\* turns, where both are -1, 0 or 1.
CosTurn(a) ==
  LET q == ((4 * a) \div RND) % 4
  IN  IF q = 0 THEN 1 ELSE IF q = 2 THEN -1 ELSE 0

SinTurn(a) ==
  LET q == ((4 * a) \div RND) % 4
  IN  IF q = 1 THEN 1 ELSE IF q = 3 THEN -1 ELSE 0

\* Math.acos(x), x over RND, as a fraction of a turn over RND: acos(-1) is
\* half a turn, acos(0) a quarter, acos(1) none.
AcosTurn(x) ==
  IF x = -RND THEN RND \div 2 ELSE IF x = 0 THEN RND \div 4 ELSE 0

\* Math.cbrt(r), r over RND, at the cubes of the quarters.
Cbrt(r) == (CHOOSE c \in 0..4 : c * c * c * RND = 64 * r) * (RND \div 4)

\* ------------------------------------------------------- Math.random()
\* The values Math.random() returns while one element is generated, over
\* RND.  The program draws them from the host's generator; the model draws
\* the stream of one run from these samples, rotated by the run's seed.
\* The samples are the ones whose endpoints are exact over LEN, and they
\* include the draw 0, the least value Math.random() returns.
OrnamentDraws ==
  << [h |-> 256,  j |-> 0,    a |-> 0,    u |-> 0,    v |-> 2400, rx |-> 0,    ry |-> 1200, sc |-> 0],
     [h |-> 832,  j |-> 2400, a |-> 1200, u |-> 1200, v |-> 2400, rx |-> 2400, ry |-> 0,    sc |-> 2400],
     [h |-> 2560, j |-> 0,    a |-> 2400, u |-> 2400, v |-> 0,    rx |-> 1200, ry |-> 2400, sc |-> 2400],
     [h |-> 4288, j |-> 2400, a |-> 3600, u |-> 3600, v |-> 2400, rx |-> 2400, ry |-> 1200, sc |-> 0] >>

\* In a Foliage draw, a is the whole angle i * 0.1 + Math.random() * 2 PI of
\* the element as a fraction of a turn, and w the draw under the cube root.
FoliageDraws ==
  << [h |-> 0,    a |-> 0,    f |-> 0,    u |-> 1200, v |-> 2400, w |-> 600,  rnd |-> 0],
     [h |-> 960,  a |-> 1200, f |-> 1600, u |-> 0,    v |-> 0,    w |-> 2025, rnd |-> 2400],
     [h |-> 2880, a |-> 3600, f |-> 3200, u |-> 2400, v |-> 2400, w |-> 0,    rnd |-> 4200] >>

Seeds == 0..(Len(OrnamentDraws) - 1)

OrnamentDraw(seed, k) == OrnamentDraws[((seed + k) % Len(OrnamentDraws)) + 1]
FoliageDraw(seed, k) == FoliageDraws[((seed + k) % Len(FoliageDraws)) + 1]

\* ------------------------------------------------- endpoint generators
\* PositionData without the fixed push of 0.1 out of the foliage.
PositionData_noPush(d) ==
  LET h == (d.h * (HEIGHT * LEN - (15 * LEN) \div 10)) \div RND + (5 * LEN) \div 10
      rAtH == (RADIUS_BASE * (HEIGHT * LEN - h)) \div (HEIGHT * LEN)
      r == rAtH + (d.j * ((2 * LEN) \div 10)) \div RND
      phi == AcosTurn(2 * d.v - RND)
      sr == (SCATTER_RADIUS * 9) \div 10
  IN  [ treePosition |-> <<CosTurn(d.a) * r, h, SinTurn(d.a) * r>>,
        scatterPosition |-> << sr * SinTurn(phi) * CosTurn(d.u),
                               sr * SinTurn(phi) * SinTurn(d.u) + (HEIGHT * LEN) \div 2,
                               sr * CosTurn(phi) >>,
        rotation |-> <<d.rx, d.ry, 0>>,
        scale |-> (d.sc * ((3 * LEN) \div 10)) \div RND + (2 * LEN) \div 10,
        type |-> "box" ]

\* Ornaments.generateData, the body of its loop: one PositionData from the
\* draws d of one element.
PositionData(d) ==
  LET h == (d.h * (HEIGHT * LEN - (15 * LEN) \div 10)) \div RND + (5 * LEN) \div 10
      rAtH == (RADIUS_BASE * (HEIGHT * LEN - h)) \div (HEIGHT * LEN)
      r == rAtH + LEN \div 10 + (d.j * ((2 * LEN) \div 10)) \div RND
      tx == CosTurn(d.a) * r
      ty == h
      tz == SinTurn(d.a) * r
      theta == d.u
      phi == AcosTurn(2 * d.v - RND)
      sr == (SCATTER_RADIUS * 9) \div 10
      sx == sr * SinTurn(phi) * CosTurn(theta)
      sy == sr * SinTurn(phi) * SinTurn(theta) + (HEIGHT * LEN) \div 2
      sz == sr * CosTurn(phi)
  IN  [ treePosition |-> <<tx, ty, tz>>,
        scatterPosition |-> <<sx, sy, sz>>,
        rotation |-> <<d.rx, d.ry, 0>>,
        scale |-> (d.sc * ((3 * LEN) \div 10)) \div RND + (2 * LEN) \div 10,
        type |-> "box" ]

\* Ornaments.generateData(count); first is the place in the run's stream of
\* draws at which the call starts.
generateData(count, seed, first) ==
  [i \in 1..count |-> PositionData(OrnamentDraw(seed, first + i - 1))]

\* The counts of the three calls of generateData.
DataCount(m) ==
  IF m = "bell" THEN (ORNAMENT_COUNT * 2) \div 10 ELSE (ORNAMENT_COUNT * 4) \div 10

\* Where each call starts in the stream: spheres, then boxes, then bells.
DataFirst(m) ==
  IF m = "sphere" THEN 0
  ELSE IF m = "box" THEN DataCount("sphere")
  ELSE DataCount("sphere") + DataCount("box")

\* Foliage's useMemo: the attribute arrays of the particle field.
FoliageTreePos(d) ==
  LET y == (d.h * HEIGHT * LEN) \div RND
      rAtH == (RADIUS_BASE * (RND - d.h)) \div RND
      r == (((d.f * 30) \div RND + 70) * rAtH) \div 100
  IN  <<CosTurn(d.a) * r, y, SinTurn(d.a) * r>>

FoliageScatterPos(d) ==
  LET theta == d.u
      phi == AcosTurn(2 * d.v - RND)
      sr == (Cbrt(d.w) * SCATTER_RADIUS) \div RND
  IN  << sr * SinTurn(phi) * CosTurn(theta),
         sr * SinTurn(phi) * SinTurn(theta) + (HEIGHT * LEN) \div 2,
         sr * CosTurn(phi) >>

FoliageGeometry(seed) ==
  LET draw(i) == FoliageDraw(seed, i - 1)
  IN  [ position |-> [i \in 1..PARTICLE_COUNT |-> FoliageScatterPos(draw(i))],
        aTreePos |-> [i \in 1..PARTICLE_COUNT |-> FoliageTreePos(draw(i))],
        aScatterPos |-> [i \in 1..PARTICLE_COUNT |-> FoliageScatterPos(draw(i))],
        aRandom |-> [i \in 1..PARTICLE_COUNT |-> draw(i).rnd] ]

\* ----------------------------------------------------------------- state
VARIABLES
  treeState,    \* App: the target state
  elapsedTime,  \* state.clock.elapsedTime, over ONE
  uniforms,     \* Foliage: the shader material's uTime and uProgress
  geometry,     \* Foliage: the attribute arrays of the particle field
  data,         \* Ornaments: the PositionData array of each pool
  mesh,         \* Ornaments: each instanced mesh (userData, matrices, writes)
  star,         \* Ornaments: the star's group
  delta,        \* the delta of the last frame, over ONE
  ops,          \* the last two operations, oldest first
  before,       \* every progress as it was before the last operation
  probe         \* the inputs and results of a probe of the ease functions

vars == <<treeState, elapsedTime, uniforms, geometry, data, mesh, star,
          delta, ops, before, probe>>

\* ------------------------------------------------------------------ ease
\* Eased without its second branch: the cubic ease-in alone.
Eased_easeIn(p, den) == 4 * p * p * p * 2

\* easeInOutCubic with the halves of its second branch swapped.
easeInOutCubic_flipped(x, den) ==
  LET b == -2 * x + 2 * den
  IN  IF 2 * x < den THEN 2 * (4 * x * x * x) ELSE b * b * b - 2 * den * den * den

\* animateMesh's eased, line 116: progress p over den, the result over
\* 2 * den^3.
Eased(p, den) ==
  IF 2 * p < den
    THEN 4 * p * p * p * 2
    ELSE 2 * den * den * den - (-2 * p + 2 * den) * (-2 * p + 2 * den) * (-2 * p + 2 * den)

\* The vertex shader's easeInOutCubic(x): x over den, the result over
\* 2 * den^3.  pow(b, 3.0) is b * b * b for the b >= 0 the shader passes.
easeInOutCubic(x, den) ==
  LET b == -2 * x + 2 * den
  IN  IF 2 * x < den THEN 2 * (4 * x * x * x) ELSE 2 * den * den * den - b * b * b

\* The vertex shader's localProgress = clamp(uProgress * 1.2 - aRandom * 0.2,
\* 0.0, 1.0), over 10 * ONE * RND.
localProgress(uProgress, aRandom) ==
  Max(0, Min(10 * ONE * RND, 12 * uProgress * RND - 2 * aRandom * ONE))

\* ------------------------------------------------------ progress integrator
\* targetProgress of both useFrame callbacks.
TargetProgress(ts) == IF ts = TREE_SHAPE THEN ONE ELSE 0

\* Integrate, but with the delta of a frame taken to be at least a quarter
\* second.
Integrate_minStep(progress, targetProgress, dt) ==
  progress + ((targetProgress - progress) * Max(dt, QUARTER) * TRANSITION_SPEED) \div ONE

\* Integrate, but at a constant speed: the step is delta * k toward the target
\* whatever the distance left.
Integrate_linear(progress, targetProgress, dt) ==
  IF targetProgress > progress
    THEN progress + dt * TRANSITION_SPEED
    ELSE IF targetProgress < progress THEN progress - dt * TRANSITION_SPEED
    ELSE progress

\* progress += diff * delta * TRANSITION_SPEED, all over ONE.
Integrate(progress, targetProgress, dt) ==
  LET diff == targetProgress - progress
  IN  progress + (diff * dt * TRANSITION_SPEED) \div ONE

\* ProgressOf, but a pool without a progress starts formed, at 1.
ProgressOf_formed(userData) == IF userData = <<>> THEN ONE ELSE userData[1]

\* userData.progress ?? 0 : userData is <<>> until a frame has set progress.
ProgressOf(userData) == IF userData = <<>> THEN 0 ELSE userData[1]

\* The model follows a frame only if every progress it yields is exact over
\* ONE and within [-MaxOver, 1 + MaxOver].
ExactStep(progress, targetProgress, dt) ==
  /\ ((targetProgress - progress) * dt * TRANSITION_SPEED) % ONE = 0
  /\ Integrate(progress, targetProgress, dt) >= -(MaxOver * ONE)
  /\ Integrate(progress, targetProgress, dt) <= (1 + MaxOver) * ONE

\* The clock and the star's spin are unbounded sums of the deltas: the model
\* follows them up to MaxTime quarter seconds and pins them there.
Pin(x) == Max(-(MaxTime * QUARTER), Min(MaxTime * QUARTER, x))

\* ------------------------------------------------------------ Ornaments
\* One Euler angle of an instance: pi * PI / (RND * EONE) + rad / (10 * ONE *
\* EONE) radians, plus 0.1 * sin(a / ONE) when sway is <<a>>.
Angle(pi, rad, sway) == [pi |-> pi, rad |-> rad, sway |-> sway]

\* The transform animateMesh writes for element d at index i (from 0):
\* position over EONE * LEN, scale over 10 * LEN; scaleMult is in tenths.
InstanceTransform(d, i, eased, clockTime, scaleMult, wobble) ==
  LET floatFactor == EONE - eased
      sway == <<clockTime * 2 + i * ONE>>
  IN  [ position |->
          << Lerp(d.scatterPosition[1], d.treePosition[1], eased, EONE),
             Lerp(d.scatterPosition[2], d.treePosition[2], eased, EONE),
             Lerp(d.scatterPosition[3], d.treePosition[3], eased, EONE) >>,
        rotation |->
          IF wobble
            THEN << Angle(Lerp(d.rotation[1], 0, eased, EONE),
                          10 * Lerp(clockTime, 0, eased, EONE), sway),
                    Angle(Lerp(d.rotation[2], d.rotation[2], eased, EONE),
                          10 * Lerp(clockTime, 0, eased, EONE), <<>>),
                    Angle(Lerp(d.rotation[3], 0, eased, EONE),
                          10 * Lerp(clockTime, 0, eased, EONE), sway) >>
            ELSE << Angle(EONE * d.rotation[1], 5 * clockTime * floatFactor, <<>>),
                    Angle(EONE * d.rotation[2], 3 * clockTime * floatFactor, <<>>),
                    Angle(EONE * d.rotation[3], 0, <<>>) >>,
        scale |-> d.scale * scaleMult ]

\* animateMesh: the mesh m0 after the call.  writes is what the call did to
\* the instance buffer, in order.
animateMesh(m0, d, dt, clockTime, targetProgress, scaleMult, wobble) ==
  LET progress == Integrate(ProgressOf(m0.userData), targetProgress, dt)
      eased == Eased(progress, ONE)
  IN  [ userData |-> <<progress>>,
        instanceMatrix |->
          [s \in DOMAIN m0.instanceMatrix |->
             IF s <= Len(d)
               THEN <<InstanceTransform(d[s], s - 1, eased, clockTime, scaleMult, wobble)>>
               ELSE m0.instanceMatrix[s]],
        writes |->
          [s \in 1..Len(d) |-> [op |-> "setMatrixAt", index |-> s - 1]]
            \o <<[op |-> "needsUpdate", index |-> -1]>> ]

ScaleMult(m) == IF m = "box" THEN 13 ELSE 10
Wobble(m) == m = "bell"

\* UpdateStar, but the star reads the sphere pool's progress as the previous
\* frame left it.
UpdateStar_stale(st, sphere, ts, dt, time) ==
  LET p == IF mesh["sphere"].userData = <<>>
             THEN (IF ts = TREE_SHAPE THEN ONE ELSE 0)
             ELSE mesh["sphere"].userData[1]
      starHeight == HEIGHT
      scatterY == starHeight + 5
  IN  [ y |-> Lerp(scatterY, starHeight, p, ONE),
        rotY |-> Pin(st.rotY + dt),
        scale |-> [pulse |-> <<time * 3>>, p |-> p] ]

\* The star's update: y over ONE, rotY over 2 * ONE, and the scale
\* (1 + 0.1 * sin(a / ONE)) * p / ONE with pulse = <<a>>.
UpdateStar(st, sphere, ts, dt, time) ==
  LET p == IF sphere.userData = <<>>
             THEN (IF ts = TREE_SHAPE THEN ONE ELSE 0)
             ELSE sphere.userData[1]
      starHeight == HEIGHT
      scatterY == starHeight + 5
  IN  [ y |-> Lerp(scatterY, starHeight, p, ONE),
        rotY |-> Pin(st.rotY + dt),
        scale |-> [pulse |-> <<time * 3>>, p |-> p] ]

\* The three calls of animateMesh of one frame.
MeshesAfter(dt, time) ==
  [m \in PoolNames |->
     animateMesh(mesh[m], data[m], dt, time, TargetProgress(treeState),
                 ScaleMult(m), Wobble(m))]

\* OrnamentsUseFrame, but the blend is written back into the element's
\* scatterPosition.
OrnamentsUseFrame_inPlace(dt, time) ==
  /\ mesh' = MeshesAfter(dt, time)
  /\ star' = UpdateStar(star, MeshesAfter(dt, time)["sphere"], treeState, dt, time)
  /\ data' = [m \in PoolNames |->
                [s \in DOMAIN data[m] |->
                   [data[m][s] EXCEPT !.scatterPosition =
                      [c \in 1..3 |->
                         MeshesAfter(dt, time)[m].instanceMatrix[s][1].position[c] \div EONE]]]]

\* Ornaments' useFrame callback.
OrnamentsUseFrame(dt, time) ==
  /\ mesh' = MeshesAfter(dt, time)
  /\ star' = UpdateStar(star, MeshesAfter(dt, time)["sphere"], treeState, dt, time)
  /\ UNCHANGED data

\* ---------------------------------------------------------------- Foliage
\* Foliage's useFrame callback.
FoliageUseFrame(dt, time) ==
  /\ uniforms' = [ uTime |-> time,
                   uProgress |-> Integrate(uniforms.uProgress,
                                           TargetProgress(treeState), dt) ]
  /\ UNCHANGED geometry

\* -------------------------------------------------------------- snapshot
Snapshot ==
  [m \in PoolNames \cup {"foliage"} |->
     IF m = "foliage" THEN uniforms.uProgress ELSE ProgressOf(mesh[m].userData)]

Representable(dt) ==
  \A m \in PoolNames \cup {"foliage"} :
     ExactStep(Snapshot[m], TargetProgress(treeState), dt)

\* ------------------------------------------------------------------ init
NoProbe == [x |-> 0, y |-> 0, host |-> <<>>, shader |-> <<>>]

InitScene ==
  /\ treeState = TREE_SHAPE
  /\ elapsedTime = 0
  /\ uniforms = [uTime |-> 0, uProgress |-> 0]
  /\ \E seed \in Seeds :
       /\ geometry = FoliageGeometry(seed)
       /\ data = [m \in PoolNames |-> generateData(DataCount(m), seed, DataFirst(m))]
  /\ mesh = [m \in PoolNames |->
               [ userData |-> <<>>,
                 instanceMatrix |-> [s \in 1..ORNAMENT_COUNT |-> <<>>],
                 writes |-> <<>> ]]
  /\ star = [y |-> HEIGHT * ONE, rotY |-> 0, scale |-> [pulse |-> <<>>, p |-> ONE]]
  /\ delta = 0
  /\ ops = <<"init", "init">>
  /\ before = [m \in PoolNames \cup {"foliage"} |-> 0]

Init == InitScene /\ probe = NoProbe

\* --------------------------------------------------------------- actions
\* App.toggleState.
toggleState ==
  /\ treeState' = (IF treeState = TREE_SHAPE THEN SCATTERED ELSE TREE_SHAPE)
  /\ delta' = 0
  /\ ops' = <<ops[2], "toggle">>
  /\ before' = Snapshot
  /\ UNCHANGED <<elapsedTime, uniforms, geometry, data, mesh, star, probe>>

\* One rendered frame: the frame loop advances the clock by dt and calls the
\* useFrame callbacks of Foliage and Ornaments with it.
Frame(dt) ==
  /\ Representable(dt)
  /\ elapsedTime' = Pin(elapsedTime + dt)
  /\ FoliageUseFrame(dt, Pin(elapsedTime + dt))
  /\ OrnamentsUseFrame(dt, Pin(elapsedTime + dt))
  /\ delta' = dt
  /\ ops' = <<ops[2], "frame">>
  /\ before' = Snapshot
  /\ UNCHANGED <<treeState, probe>>

\* The deltas of a frame: 0, 1/4, ..., MaxDelta/4 seconds.
Deltas == {n * QUARTER : n \in 0..MaxDelta}

useFrame == \E dt \in Deltas : Frame(dt)

Next == toggleState \/ useFrame

Spec == Init /\ [][Next]_vars

\* A frame with a positive delta.  The frame loop calls the callbacks once
\* per animation frame for as long as the scene is mounted, and time passes
\* between two frames.
useFramePositive == \E dt \in Deltas \ {0} : Frame(dt)

FairSpec == Init /\ [][Next]_vars /\ WF_vars(useFramePositive)

\* A frame with a negative delta, as a clock that steps back hands it over.
NegativeDeltas == {-QUARTER}

useFrameNegative == \E dt \in NegativeDeltas : Frame(dt)

NextAnyDelta == toggleState \/ useFrame \/ useFrameNegative

AnyDeltaSpec == Init /\ [][NextAnyDelta]_vars

\* ---------------------------------------------------------- ease, probed
\* The ease functions are probed at x / EGRID and y / EGRID.
EGRID == 2 ^ EaseBits

InitEase ==
  /\ InitScene
  /\ probe \in {[x |-> x, y |-> y, host |-> <<>>, shader |-> <<>>] :
                  x \in 0..EGRID, y \in 0..EGRID}

EvalEase ==
  /\ probe.host = <<>>
  /\ probe' = [probe EXCEPT
                 !.host = <<Eased(probe.x, EGRID), Eased(probe.y, EGRID)>>,
                 !.shader = <<easeInOutCubic(probe.x, EGRID),
                              easeInOutCubic(probe.y, EGRID)>>]
  /\ UNCHANGED <<treeState, elapsedTime, uniforms, geometry, data, mesh, star,
                 delta, ops, before>>

EaseSpec == InitEase /\ [][EvalEase]_vars

\* ================================================================ claims
AllProgress == PoolNames \cup {"foliage"}
Target == TargetProgress(treeState)
FrameDone == ops[2] = "frame"

\* C1: for every pool and every frame with delta >= 0 that starts from a
\* progress in [0, 1]: toward target 1 the new progress is not above 1 and
\* not below the old one; toward target 0 it is not negative.
C1_NeverOvershoots ==
  (FrameDone /\ delta >= 0) =>
    \A m \in AllProgress :
      (before[m] >= 0 /\ before[m] <= ONE) =>
        /\ (Target = ONE => (Snapshot[m] <= ONE /\ Snapshot[m] >= before[m]))
        /\ (Target = 0 => Snapshot[m] >= 0)

\* Every progress is within 1e-3 of the target.
Near(progress, targetProgress) ==
  /\ (progress - targetProgress) * 1000 <= ONE
  /\ (targetProgress - progress) * 1000 <= ONE

NearTarget(progress) ==
  \/ treeState = TREE_SHAPE /\ Near(progress, ONE)
  \/ treeState = SCATTERED /\ Near(progress, 0)

AllNear ==
  /\ NearTarget(uniforms.uProgress)
  /\ \A m \in PoolNames :
       \/ mesh[m].userData = <<>> /\ NearTarget(0)
       \/ mesh[m].userData # <<>> /\ NearTarget(mesh[m].userData[1])

\* C2: once the target is held, every pool's progress is eventually within
\* 1e-3 of it, and stays there.
C2_Converges ==
  /\ (<>[](treeState = TREE_SHAPE)) => <>[]AllNear
  /\ (<>[](treeState = SCATTERED)) => <>[]AllNear

C4_NegativeDeltaIgnored ==
  (FrameDone /\ delta < 0) =>
    \A m \in AllProgress :
      \/ Snapshot[m] = before[m]
      \/ /\ Snapshot[m] >= 0
         /\ Snapshot[m] <= ONE
         /\ Abs(Target - Snapshot[m]) <= Abs(Target - before[m])

\* A frame with delta 0 has just been taken (in an action formula).
ZeroFrame == ops'[2] = "frame" /\ delta' = 0

\* C5 as stated: a frame with delta 0 leaves every progress value and every
\* instance transform unchanged.
C5_Idempotent ==
  [][ZeroFrame =>
       /\ uniforms'.uProgress = uniforms.uProgress
       /\ \A m \in PoolNames :
            /\ ProgressOf(mesh'[m].userData) = ProgressOf(mesh[m].userData)
            /\ mesh'[m].instanceMatrix = mesh[m].instanceMatrix]_vars

\* C5, amended: a frame with delta 0 leaves the particle field's progress
\* unchanged, and leaves the progress and every instance transform of every
\* pool that an earlier frame has updated unchanged.
C5_IdempotentOnceUpdated ==
  [][ZeroFrame =>
       /\ uniforms'.uProgress = uniforms.uProgress
       /\ \A m \in PoolNames :
            (mesh[m].userData # <<>>) =>
              /\ mesh'[m].userData = mesh[m].userData
              /\ mesh'[m].instanceMatrix = mesh[m].instanceMatrix]_vars

\* C5's case: a frame with delta 0 has followed a frame, with the pools in
\* mid-flight and the clock past 0.
C5_Witness ==
  /\ ops = <<"frame", "frame">>
  /\ delta = 0
  /\ elapsedTime > 0
  /\ \A m \in PoolNames : mesh[m].userData # <<>>
  /\ \A m \in AllProgress : Snapshot[m] > 0 /\ Snapshot[m] < ONE

\* The position of slot s of pool m, over EONE * LEN.
PositionOf(m, s) == mesh[m].instanceMatrix[s][1].position

\* C6: the position of every instance of an updated pool is
\* lerp(scatterPosition, treePosition, ease(progress)); it is the formed
\* endpoint at progress 1 and the scattered endpoint at progress 0.
C6_Blend ==
  \A m \in PoolNames :
    (mesh[m].userData # <<>>) =>
      \A s \in 1..Len(data[m]) :
        LET p == mesh[m].userData[1]
            d == data[m][s]
        IN  /\ PositionOf(m, s) =
                 [c \in 1..3 |-> Lerp(d.scatterPosition[c], d.treePosition[c],
                                      Eased(p, ONE), EONE)]
            /\ (p = ONE) => PositionOf(m, s) = [c \in 1..3 |-> EONE * d.treePosition[c]]
            /\ (p = 0) => PositionOf(m, s) = [c \in 1..3 |-> EONE * d.scatterPosition[c]]

\* C6's case: a frame has brought every pool to progress 1.
C6_Witness ==
  /\ FrameDone
  /\ delta > 0
  /\ \A m \in PoolNames : mesh[m].userData = <<ONE>>

\* C7: at the probed inputs x and y in [0, 1], ease(0) = 0, ease(1) = 1,
\* x <= y gives ease(x) <= ease(y), x + y = 1 gives ease(x) = 1 - ease(y),
\* for the host's ease and for the shader's, and the two agree.
C7_Ease ==
  (probe.host # <<>>) =>
    /\ probe.host = probe.shader
    /\ \A f \in {probe.host, probe.shader} :
         /\ (probe.x = 0) => f[1] = 0
         /\ (probe.x = EGRID) => f[1] = 2 * EGRID * EGRID * EGRID
         /\ (probe.x <= probe.y) => f[1] <= f[2]
         /\ (probe.x + probe.y = EGRID) => f[1] = 2 * EGRID * EGRID * EGRID - f[2]

\* C7's case: both eases evaluated at a pair x < 1/2 < y with x + y = 1.
C7_Witness ==
  /\ probe.host # <<>>
  /\ probe.shader # <<>>
  /\ probe.x > 0
  /\ 2 * probe.x < EGRID
  /\ probe.x + probe.y = EGRID

\* The squared horizontal radius of a formed position, the cone's radius
\* R * (1 - y / H) at its height, and the squared distance of a scattered
\* position from the scatter centre (0, H/2, 0); lengths over LEN.
Radius2(pos) == pos[1] * pos[1] + pos[3] * pos[3]
ConeRadius(pos) == (RADIUS_BASE * (HEIGHT * LEN - pos[2])) \div (HEIGHT * LEN)
Scatter2(pos) ==
  pos[1] * pos[1]
    + (pos[2] - (HEIGHT * LEN) \div 2) * (pos[2] - (HEIGHT * LEN) \div 2)
    + pos[3] * pos[3]

\* C8 as stated: every formed endpoint, of a particle or of an ornament, has
\* a radius <= R(1-h) and > 0.7 R(1-h), and every scattered endpoint is
\* within S of the scatter centre.
C8_InsideCone ==
  /\ \A i \in 1..PARTICLE_COUNT :
       /\ Radius2(geometry.aTreePos[i]) <= ConeRadius(geometry.aTreePos[i]) ^ 2
       /\ 100 * Radius2(geometry.aTreePos[i]) > 49 * ConeRadius(geometry.aTreePos[i]) ^ 2
       /\ Scatter2(geometry.aScatterPos[i]) <= SCATTER_RADIUS ^ 2
  /\ \A m \in PoolNames : \A s \in 1..Len(data[m]) :
       /\ Radius2(data[m][s].treePosition) <= ConeRadius(data[m][s].treePosition) ^ 2
       /\ 100 * Radius2(data[m][s].treePosition)
            > 49 * ConeRadius(data[m][s].treePosition) ^ 2
       /\ Scatter2(data[m][s].scatterPosition) <= SCATTER_RADIUS ^ 2

\* C8, amended: a particle's formed radius is <= R(1-h) and >= 0.7 R(1-h);
\* an ornament's formed radius is outside the cone, >= R(1-h) + 0.1 and
\* < R(1-h) + 0.3; every scattered endpoint is within S of the centre.
C8_Endpoints ==
  /\ \A i \in 1..PARTICLE_COUNT :
       /\ Radius2(geometry.aTreePos[i]) <= ConeRadius(geometry.aTreePos[i]) ^ 2
       /\ 100 * Radius2(geometry.aTreePos[i]) >= 49 * ConeRadius(geometry.aTreePos[i]) ^ 2
       /\ Scatter2(geometry.aScatterPos[i]) <= SCATTER_RADIUS ^ 2
  /\ \A m \in PoolNames : \A s \in 1..Len(data[m]) :
       /\ Radius2(data[m][s].treePosition)
            >= (ConeRadius(data[m][s].treePosition) + LEN \div 10) ^ 2
       /\ Radius2(data[m][s].treePosition)
            < (ConeRadius(data[m][s].treePosition) + (3 * LEN) \div 10) ^ 2
       /\ Scatter2(data[m][s].scatterPosition) <= SCATTER_RADIUS ^ 2

\* C8's case: the generators have run, and have produced a particle on the
\* inner bound 0.7 R(1-h) and an ornament on its inner bound R(1-h) + 0.1.
C8_Witness ==
  /\ \E i \in 1..PARTICLE_COUNT :
       100 * Radius2(geometry.aTreePos[i]) = 49 * ConeRadius(geometry.aTreePos[i]) ^ 2
  /\ \E m \in PoolNames : \E s \in 1..Len(data[m]) :
       Radius2(data[m][s].treePosition)
         = (ConeRadius(data[m][s].treePosition) + LEN \div 10) ^ 2
  /\ \A m \in PoolNames : Len(data[m]) = DataCount(m)

\* C9: no step changes an element's endpoints, base rotation or base scale,
\* or the number of elements of a pool, and a frame leaves the target alone.
C9_EndpointsFixed ==
  [][/\ data' = data
     /\ geometry' = geometry
     /\ (ops'[2] = "frame") => treeState' = treeState]_vars

\* C9's case: frames and a toggle have acted on the pools.
C9_Witness ==
  /\ ops = <<"toggle", "frame">>
  /\ delta > 0
  /\ \A m \in PoolNames : mesh[m].userData # <<>> /\ mesh[m].userData # <<0>>
  /\ \A m \in PoolNames : Len(data[m]) = DataCount(m)

\* C10: a frame writes every slot its mesh was allocated with, in order, and
\* then sets needsUpdate once.
C10_EveryInstanceWritten ==
  FrameDone =>
    \A m \in PoolNames :
      mesh[m].writes =
        [s \in 1..ORNAMENT_COUNT |-> [op |-> "setMatrixAt", index |-> s - 1]]
          \o <<[op |-> "needsUpdate", index |-> -1]>>

\* C11: after every frame the sphere pool has a progress p, the one that
\* frame has just stored, and the star was placed with it: its height is the
\* blend from HEIGHT + 5 at p = 0 to HEIGHT at p = 1, and its scale is
\* (1 + 0.1 * sin(3 * elapsedTime)) * p, which is zero at p = 0.
C11_StarFollowsSphere ==
  FrameDone =>
    /\ mesh["sphere"].userData # <<>>
    /\ mesh["sphere"].userData =
         <<Integrate(before["sphere"], Target, delta)>>
    /\ LET p == mesh["sphere"].userData[1]
       IN  /\ star.y = Lerp(HEIGHT + 5, HEIGHT, p, ONE)
           /\ star.scale = [pulse |-> <<3 * elapsedTime>>, p |-> p]
           /\ (p = 0) => (star.y = (HEIGHT + 5) * ONE /\ star.scale.p = 0)
           /\ (p = ONE) => star.y = HEIGHT * ONE

\* C11's case: a frame has brought the sphere pool from a positive progress
\* to exactly 0, and the star stands at the scatter height with scale zero.
C11_Witness ==
  /\ FrameDone
  /\ delta > 0
  /\ treeState = SCATTERED
  /\ before["sphere"] > 0
  /\ mesh["sphere"].userData = <<0>>
  /\ star.scale.p = 0
  /\ star.y = (HEIGHT + 5) * ONE

====
